---- MODULE Spec2Model ----
(***************************************************************************)
(* Search and pagination engine of episodic-memory (src/src/search.ts):    *)
(* searchConversations in its three modes and searchMultipleConcepts, run  *)
(* against an exchange store filled by insertExchange.                     *)
(***************************************************************************)
EXTENDS Integers, Sequences, FiniteSets, TLC

\* The record fields used below.  TLC keeps the fields of a record in the
\* order in which their names first occur in the module; every record of this
\* module lists its fields in this order.
FieldNames ==
    [after |-> 0, archivePath |-> 1, archive_path |-> 2,
     assistantMessage |-> 3, averageSimilarity |-> 4, before |-> 5,
     closes |-> 6, complete |-> 7, conceptIndex |-> 8, conceptResults |-> 9,
     conceptSimilarities |-> 10, concepts |-> 11, copied |-> 12, d |-> 13,
     def |-> 14, distance |-> 15, embedding |-> 16, embeds |-> 17,
     errors |-> 18, existing |-> 19, exists |-> 20, failing |-> 21,
     filesToIndex |-> 22, fmt |-> 23, given |-> 24, hasMore |-> 25,
     id |-> 26, indexed |-> 27, inserted |-> 28, k |-> 29, kind |-> 30,
     limit |-> 31, m |-> 32, marker |-> 33, mode |-> 34, mtime |-> 35,
     multiConceptResults |-> 36, name |-> 37, nextOffset |-> 38,
     offset |-> 39, ok |-> 40, oneLiner |-> 41, op |-> 42, opens |-> 43,
     options |-> 44, out |-> 45, pagination |-> 46, param |-> 47, pc |-> 48,
     query |-> 49, rejectedBy |-> 50, results |-> 51, rows |-> 52,
     runs |-> 53, sessionId |-> 54, similarity |-> 55, skipIndex |-> 56,
     skipped |-> 57, state |-> 58, summary |-> 59, thrown |-> 60,
     timestamp |-> 61, todo |-> 62, total |-> 63, unchanged |-> 64,
     userMessage |-> 65, v |-> 66, value |-> 67, vec |-> 68]

(***************************************************************************)
(* Bounds of the model.                                                    *)
(***************************************************************************)
MaxExchanges == 3
MaxConceptExchanges == 4
MaxLimit == 2
MaxOffset == 2
MaxConcepts == 2

(***************************************************************************)
(* Value domains.  A query string is one of two terms; an embedding is a   *)
(* point on a line (instead of 384 dimensions) and the distance of two     *)
(* embeddings is their absolute difference.  Numbers that are floats in    *)
(* the program are fixed-point integers with One standing for 1.0.         *)
(***************************************************************************)
Queries == {"q1", "q2"}
Paths == {"A.jsonl", "B.jsonl"}
Days == {1, 2}
Embeddings == {0, 2}
One == 2 * 3

Min(a, b) == IF a < b THEN a ELSE b
Abs(x) == IF x < 0 THEN -x ELSE x

\* JavaScript undefined, and a defined number.
Undefined == [def |-> FALSE, v |-> 0]
Def(n) == [def |-> TRUE, v |-> n]

\* slice with the end index taken as inclusive.
SliceInclusiveEnd(s, start, end) == SubSeq(s, start + 1, Min(end + 1, Len(s)))

\* slice with the start index taken as 1-based.
SliceOneBased(s, start, end) ==
    SubSeq(s, IF start = 0 THEN 1 ELSE start, Min(end, Len(s)))

\* Array.prototype.slice(start, end) for 0 <= start <= end.
Slice(s, start, end) == SubSeq(s, start + 1, Min(end, Len(s)))

(***************************************************************************)
(* Date arguments.  A date string is described by what validateISODate     *)
(* looks at: whether it is truthy (given), whether it matches              *)
(* /^\d{4}-\d{2}-\d{2}$/ (fmt), and its month and day digits.  The year is *)
(* the year of every stored timestamp.                                     *)
(***************************************************************************)
NoDate == [d |-> 0, fmt |-> FALSE, given |-> FALSE, m |-> 0]
Malformed == [d |-> 1, fmt |-> FALSE, given |-> TRUE, m |-> 10]
Month13 == [d |-> 1, fmt |-> TRUE, given |-> TRUE, m |-> 13]
Feb30 == [d |-> 30, fmt |-> TRUE, given |-> TRUE, m |-> 2]
Oct02 == [d |-> 2, fmt |-> TRUE, given |-> TRUE, m |-> 10]
DateArgs == {NoDate, Malformed, Month13, Feb30, Oct02}

\* The (after, before) pairs a single-query request is made with.
DateFilters ==
    {<<NoDate, NoDate>>, <<Oct02, NoDate>>, <<NoDate, Oct02>>, <<Oct02, Oct02>>,
     <<Malformed, NoDate>>, <<NoDate, Month13>>, <<Feb30, NoDate>>}

\* The (after, before) pairs a multi-concept request is made with.
ConceptDateFilters ==
    {<<NoDate, NoDate>>, <<NoDate, Oct02>>, <<Malformed, NoDate>>, <<NoDate, Feb30>>}

\* The sets of concepts whose embedding cannot be generated.
FailingSets == {{}, {"q2"}}

\* Days of each month of the (non-leap) year of the stored timestamps.
DaysInMonth(m) ==
    IF m = 2 THEN 28 ELSE IF m \in {4, 6, 9, 11} THEN 30 ELSE 31

\* A YYYY-MM-DD string that names a day of the calendar.
RealCalendarDate(ds) ==
    ds.fmt /\ ds.m \in 1..12 /\ ds.d \in 1..DaysInMonth(ds.m)

\* new Date("YYYY-MM-DD") of the JavaScript engine: NaN unless the month is
\* 1..12 and the day 1..31; a day past the end of the month rolls over into
\* the next month and is no error.
ParsesAsDate(ds) == ds.m \in 1..12 /\ ds.d \in 1..31

DateOk == [ok |-> TRUE, param |-> "", value |-> NoDate]
DateError(paramName, dateStr) == [ok |-> FALSE, param |-> paramName, value |-> dateStr]

validateISODate(dateStr, paramName) ==
    IF ~dateStr.fmt THEN DateError(paramName, dateStr)
    ELSE IF ~ParsesAsDate(dateStr) THEN DateError(paramName, dateStr)
    ELSE DateOk

(***************************************************************************)
(* The store.  db is the exchanges table in rowid order together with      *)
(* vec_exchanges (insertExchange writes both); the id of an exchange is    *)
(* its position.  timestamp is the day of October of an ISO-8601 instant   *)
(* "YYYY-10-DDThh:mm:ss.sssZ"; userMessage and assistantMessage are the    *)
(* sets of query terms the text contains.                                  *)
(***************************************************************************)
Exchanges ==
    [archivePath : Paths, assistantMessage : SUBSET Queries, embedding : Embeddings,
     timestamp : Days, userMessage : SUBSET Queries]

\* SQL string comparison of a stored timestamp with a YYYY-MM-DD argument.
\* The timestamp is the longer string, so on an equal date prefix it is the
\* greater one.
TimestampGeq(ts, ds) == 10 * 100 + ts >= ds.m * 100 + ds.d
TimestampLeq(ts, ds) == 10 * 100 + ts < ds.m * 100 + ds.d

\* timeClause of searchConversations.
timeClause(ts, after, before) ==
    /\ after.given => TimestampGeq(ts, after)
    /\ before.given => TimestampLeq(ts, before)

\* generateEmbedding of a query string.
generateEmbedding(query) == IF query = "q1" THEN 0 ELSE 2

\* vec.distance of a stored embedding to the query embedding.
Distance(e, queryEmbedding) == One * Abs(e.embedding - queryEmbedding)

\* LIKE '%query%' on a message.
Like(message, query) == query \in message

\* A result row; k is the ORDER BY key (ascending).
Row(db, i, distance, k) ==
    [archive_path |-> db[i].archivePath, distance |-> distance, id |-> i, k |-> k,
     timestamp |-> db[i].timestamp]

\* A stable sort of rows by ascending k: rows of equal key keep their order.
RECURSIVE InsertSorted(_, _)
InsertSorted(sorted, r) ==
    IF sorted = <<>> THEN <<r>>
    ELSE IF Head(sorted).k <= r.k
         THEN <<Head(sorted)>> \o InsertSorted(Tail(sorted), r)
         ELSE <<r>> \o sorted

RECURSIVE SortRows(_)
SortRows(rows) ==
    IF rows = <<>> THEN <<>>
    ELSE InsertSorted(SortRows(SubSeq(rows, 1, Len(rows) - 1)), rows[Len(rows)])

\* vectorStmt.all(embedding, k, ...timeParams): the k nearest rows of
\* vec_exchanges, joined with exchanges, the time clause applied to the joined
\* rows, ordered by distance.
vectorStmt(db, queryEmbedding, k, after, before) ==
    LET all == [i \in 1..Len(db) |->
                   Row(db, i, Distance(db[i], queryEmbedding),
                       Distance(db[i], queryEmbedding))]
        knn == SubSeq(SortRows(all), 1, Min(k, Len(db)))
    IN SelectSeq(knn, LAMBDA r : timeClause(r.timestamp, after, before))

\* The rows the WHERE clause of countStmt and textStmt selects.
TextMatches(db, query, after, before) ==
    LET all == [i \in 1..Len(db) |-> Row(db, i, 0, 0 - db[i].timestamp)]
    IN SelectSeq(all, LAMBDA r :
           /\ Like(db[r.id].userMessage, query) \/ Like(db[r.id].assistantMessage, query)
           /\ timeClause(r.timestamp, after, before))

countStmt(db, query, after, before) == Len(TextMatches(db, query, after, before))

\* textStmt with LIMIT taken as the end position instead of the row count.
textStmtLimitAsEnd(db, query, after, before, lim, off) ==
    Slice(SortRows(TextMatches(db, query, after, before)), off, lim)

\* textStmt.all(...): ORDER BY e.timestamp DESC LIMIT lim OFFSET off.
textStmt(db, query, after, before, lim, off) ==
    Slice(SortRows(TextMatches(db, query, after, before)), off, off + lim)

(***************************************************************************)
(* searchConversations.  The value of a call is the record                 *)
(* [closes, embeds, opens, out]: what the promise settles with (out), and  *)
(* how many times the call ran initDatabase, db.close and                  *)
(* generateEmbedding.  embedFails says whether generateEmbedding throws    *)
(* for this query.                                                         *)
(***************************************************************************)
Thrown(name, param, value) ==
    [kind |-> "error", name |-> name, param |-> param, value |-> value]

\* PaginationMeta with the comparison of hasMore off by one (<= for <).
PaginationMetaOffByOne(total, limit, offset, returned) ==
    [hasMore |-> offset + returned <= total,
     limit |-> limit,
     nextOffset |-> IF offset + returned <= total THEN Def(offset + limit) ELSE Undefined,
     offset |-> offset,
     total |-> total]

\* PaginationMeta with the current offset given as nextOffset.
PaginationMetaSameOffset(total, limit, offset, returned) ==
    [hasMore |-> offset + returned < total,
     limit |-> limit,
     nextOffset |-> IF offset + returned < total THEN Def(offset) ELSE Undefined,
     offset |-> offset,
     total |-> total]

PaginationMeta(total, limit, offset, returned) ==
    [hasMore |-> offset + returned < total,
     limit |-> limit,
     nextOffset |-> IF offset + returned < total THEN Def(offset + limit) ELSE Undefined,
     offset |-> offset,
     total |-> total]

\* results.map(row => SearchResult)
SearchResult(row, mode) ==
    [archivePath |-> row.archive_path, id |-> row.id,
     similarity |-> IF mode = "text" THEN Undefined ELSE Def(One - row.distance),
     timestamp |-> row.timestamp]

\* The merge with the text rows first and the vector rows they lack after.
MergeTextFirst(vectorRows, textRows) ==
    LET seenIds == {textRows[i].id : i \in 1..Len(textRows)}
    IN textRows \o SelectSeq(vectorRows, LAMBDA r : r.id \notin seenIds)

\* The merge without the test on seenIds.
MergeAll(vectorRows, textRows) == vectorRows \o textRows

\* The merge of mode 'both': the text rows whose id is not among the vector rows
\* are pushed after the vector rows.
MergeById(vectorRows, textRows) ==
    LET seenIds == {vectorRows[i].id : i \in 1..Len(vectorRows)}
    IN vectorRows \o SelectSeq(textRows, LAMBDA r : r.id \notin seenIds)

\* The rows and the total of mode 'vector': the rows the index returned,
\* counted and sliced.
VectorRows(allVectorResults, limit, offset) ==
    [results |-> Slice(allVectorResults, offset, offset + limit),
     total |-> Len(allVectorResults)]

\* The rows and the total of mode 'text': the count query and the paginated
\* query.
TextRows(db, query, after, before, limit, offset) ==
    [results |-> textStmt(db, query, after, before, limit, offset),
     total |-> countStmt(db, query, after, before)]

\* The rows and the total of mode 'both': the merged rows, counted and sliced.
MergedRows(merged, limit, offset) ==
    [results |-> Slice(merged, offset, offset + limit), total |-> Len(merged)]

\* The number of neighbours asked of one more than the page needs.
VectorKPlusOne(limit, offset) == limit + offset + 1

\* The k of vectorStmt.all(embeddingBuffer, limit + offset, ...timeParams).
VectorK(limit, offset) == limit + offset

\* The queries searchConversations runs on the open store, by mode.
QueryRows(db, query, options) ==
    IF options.mode = "text"
    THEN TextRows(db, query, options.after, options.before, options.limit, options.offset)
    ELSE IF options.mode = "vector"
    THEN VectorRows(vectorStmt(db, generateEmbedding(query),
                               VectorK(options.limit, options.offset),
                               options.after, options.before),
                    options.limit, options.offset)
    ELSE MergedRows(MergeById(vectorStmt(db, generateEmbedding(query),
                                         VectorK(options.limit, options.offset),
                                         options.after, options.before),
                              textStmt(db, query, options.after, options.before,
                                       options.limit + options.offset, 0)),
                    options.limit, options.offset)

\* The call resolves: the store was opened and closed, the rows are mapped
\* to results and the pagination built.
Resolved(rows, options) ==
    [closes |-> 1, embeds |-> IF options.mode = "text" THEN 0 ELSE 1, opens |-> 1,
     out |-> [kind |-> "page",
              pagination |-> PaginationMeta(rows.total, options.limit, options.offset,
                                            Len(rows.results)),
              results |-> [i \in 1..Len(rows.results) |->
                              SearchResult(rows.results[i], options.mode)]]]

\* The call rejects; the store, when it was opened, is not closed.
Rejected(opens, embeds, error) ==
    [closes |-> 0, embeds |-> embeds, opens |-> opens, out |-> error]

\* if (after) validateISODate(after, '--after')
CheckDate(dateStr, paramName) ==
    IF dateStr.given THEN validateISODate(dateStr, paramName) ELSE DateOk

ValidationError(check) == Thrown("ValidationError", check.param, check.value)

searchConversations(db, query, options, embedFails) ==
    IF ~CheckDate(options.after, "--after").ok
    THEN Rejected(0, 0, ValidationError(CheckDate(options.after, "--after")))
    ELSE IF ~CheckDate(options.before, "--before").ok
    THEN Rejected(0, 0, ValidationError(CheckDate(options.before, "--before")))
    ELSE IF options.mode # "text" /\ embedFails
    THEN Rejected(1, 1, Thrown("EmbeddingError", "", NoDate))
    ELSE Resolved(QueryRows(db, query, options), options)

(***************************************************************************)
(* searchMultipleConcepts.  failing is the set of concepts whose embedding *)
(* cannot be generated.  Besides [closes, embeds, opens, out] the value of *)
(* a call carries its locals conceptResults (what each per-concept search  *)
(* returned) and multiConceptResults (the matches before pagination).      *)
(***************************************************************************)
OverFetch == 5

RECURSIVE Sum(_)
Sum(s) == IF s = <<>> THEN 0 ELSE Head(s) + Sum(Tail(s))

RECURSIVE Flatten(_)
Flatten(ss) == IF ss = <<>> THEN <<>> ELSE Head(ss) \o Flatten(Tail(ss))

\* The keys of conversationMap in insertion order: the archive paths of the
\* tagged results in order of first appearance.
RECURSIVE MapKeys(_, _)
MapKeys(tagged, seen) ==
    IF tagged = <<>> THEN <<>>
    ELSE IF Head(tagged).archivePath \in seen THEN MapKeys(Tail(tagged), seen)
    ELSE <<Head(tagged).archivePath>>
             \o MapKeys(Tail(tagged), seen \cup {Head(tagged).archivePath})

\* The test on the number of results of the conversation instead of on the
\* number of distinct concepts among them.
AllConceptsRepresentedByCount(results, concepts) == Len(results) = Len(concepts)

\* representedConcepts.size === concepts.length
AllConceptsRepresented(results, concepts) ==
    Cardinality({results[j].conceptIndex : j \in 1..Len(results)}) = Len(concepts)

\* The similarity of the last result of the concept instead of the first.
ConceptSimilarityLast(results, index) ==
    LET found == SelectSeq(results, LAMBDA r : r.conceptIndex = index)
    IN IF found = <<>> THEN 0
       ELSE IF found[Len(found)].similarity.def THEN found[Len(found)].similarity.v ELSE 0

\* results.find(r => r.conceptIndex === index)?.similarity || 0
ConceptSimilarity(results, index) ==
    LET found == SelectSeq(results, LAMBDA r : r.conceptIndex = index)
    IN IF found = <<>> THEN 0
       ELSE IF found[1].similarity.def THEN found[1].similarity.v ELSE 0

\* MultiConceptResult with the similarity of the first concept taken for the
\* average.
MultiConceptResultFirstScore(results, concepts) ==
    LET conceptSimilarities == [i \in 1..Len(concepts) |-> ConceptSimilarity(results, i)]
    IN [archivePath |-> results[1].archivePath,
        averageSimilarity |-> conceptSimilarities[1],
        conceptSimilarities |-> conceptSimilarities,
        id |-> results[1].id,
        k |-> 0 - conceptSimilarities[1]]

\* The MultiConceptResult of one entry of conversationMap; k is the sort key
\* of multiConceptResults.sort((a, b) => b.averageSimilarity - a.averageSimilarity).
MultiConceptResult(results, concepts) ==
    LET conceptSimilarities == [i \in 1..Len(concepts) |-> ConceptSimilarity(results, i)]
        averageSimilarity == Sum(conceptSimilarities) \div Len(conceptSimilarities)
    IN [archivePath |-> results[1].archivePath,
        averageSimilarity |-> averageSimilarity,
        conceptSimilarities |-> conceptSimilarities,
        id |-> results[1].id,
        k |-> 0 - averageSimilarity]

\* Rejecting only when every call rejected (the calls that failed are
\* dropped, as a Promise.allSettled with a filter would).
AllRejected(calls) == \A i \in 1..Len(calls) : calls[i].out.kind = "error"

\* Promise.all rejects as soon as one of the calls rejects.
AnyRejected(calls) == \E i \in 1..Len(calls) : calls[i].out.kind = "error"

\* The rejection Promise.all settles with: the first one.
RECURSIVE FirstError(_)
FirstError(calls) ==
    IF calls = <<>> THEN Thrown("", "", NoDate)
    ELSE IF Head(calls).out.kind = "error" THEN Head(calls).out
    ELSE FirstError(Tail(calls))

\* resultWithPagination.results of a call that resolved.
ResultsOf(out) == IF out.kind = "page" THEN out.results ELSE <<>>

\* The options of the per-concept search:
\* { ...options, limit: limit * 5 + offset, mode: 'vector' }.
ConceptOptions(options) ==
    [after |-> options.after, before |-> options.before,
     limit |-> options.limit * OverFetch + options.offset,
     mode |-> "vector", offset |-> options.offset]

\* The k of the vector retrieval that a per-concept search issues.
ConceptK(options) == VectorK(ConceptOptions(options).limit, ConceptOptions(options).offset)

\* The per-concept searches handed to Promise.all.
ConceptCalls(db, concepts, options, failing) ==
    [i \in 1..Len(concepts) |->
        searchConversations(db, concepts[i], ConceptOptions(options),
                            concepts[i] \in failing)]

\* push({ ...result, conceptIndex }) for the results of one concept.
Tagged(results, conceptIndex) ==
    [j \in 1..Len(results) |->
        [archivePath |-> results[j].archivePath, conceptIndex |-> conceptIndex,
         id |-> results[j].id, similarity |-> results[j].similarity]]

\* All tagged results in the order conceptResults.forEach visits them.
AllTagged(conceptResults) ==
    Flatten([i \in 1..Len(conceptResults) |-> Tagged(ResultsOf(conceptResults[i]), i)])

\* The values of conversationMap under the given keys.
MapEntries(tagged, keys) ==
    [n \in 1..Len(keys) |-> SelectSeq(tagged, LAMBDA r : r.archivePath = keys[n])]

\* conversationMap.entries() in insertion order.
conversationMap(tagged) == MapEntries(tagged, MapKeys(tagged, {}))

\* The entries that pass the test of all concepts.
Matching(entries, concepts) ==
    SelectSeq(entries, LAMBDA results : AllConceptsRepresented(results, concepts))

\* multiConceptResults left in the order of conversationMap.
UnsortedMatches(matching, concepts) ==
    [n \in 1..Len(matching) |-> MultiConceptResult(matching[n], concepts)]

\* multiConceptResults after the sort.
SortedMatches(matching, concepts) ==
    SortRows([n \in 1..Len(matching) |-> MultiConceptResult(matching[n], concepts)])

Intersection(conceptResults, concepts) ==
    SortedMatches(Matching(conversationMap(AllTagged(conceptResults)), concepts), concepts)

\* paginatedResults and pagination of searchMultipleConcepts.
PageOf(paginatedResults, total, limit, offset) ==
    [kind |-> "page",
     pagination |-> PaginationMeta(total, limit, offset, Len(paginatedResults)),
     results |-> paginatedResults]

MultiPage(multiConceptResults, limit, offset) ==
    PageOf(Slice(multiConceptResults, offset, offset + limit),
           Len(multiConceptResults), limit, offset)

\* The value of a call of searchMultipleConcepts that ran the given calls.
Settled(calls, multiConceptResults, out) ==
    [closes |-> Sum([i \in 1..Len(calls) |-> calls[i].closes]),
     conceptResults |-> [i \in 1..Len(calls) |-> calls[i].out],
     embeds |-> Sum([i \in 1..Len(calls) |-> calls[i].embeds]),
     multiConceptResults |-> multiConceptResults,
     opens |-> Sum([i \in 1..Len(calls) |-> calls[i].opens]),
     out |-> out]

ResolvedMulti(calls, multiConceptResults, options) ==
    Settled(calls, multiConceptResults,
            MultiPage(multiConceptResults, options.limit, options.offset))

\* What follows await Promise.all(calls).
AfterCalls(calls, concepts, options) ==
    IF AnyRejected(calls)
    THEN Settled(calls, <<>>, FirstError(calls))
    ELSE ResolvedMulti(calls,
                       Intersection([i \in 1..Len(calls) |-> calls[i].out], concepts),
                       options)

\* The empty page with the limit reported as the total.
EmptyPageTotalLimit(limit, offset) ==
    [kind |-> "page",
     pagination |-> [hasMore |-> FALSE, limit |-> limit, nextOffset |-> Undefined,
                     offset |-> offset, total |-> limit],
     results |-> <<>>]

\* The page returned for concepts.length === 0.
EmptyPage(limit, offset) ==
    [kind |-> "page",
     pagination |-> [hasMore |-> FALSE, limit |-> limit, nextOffset |-> Undefined,
                     offset |-> offset, total |-> 0],
     results |-> <<>>]

searchMultipleConcepts(db, concepts, options, failing) ==
    IF Len(concepts) = 0
    THEN [closes |-> 0, conceptResults |-> <<>>, embeds |-> 0,
          multiConceptResults |-> <<>>, opens |-> 0,
          out |-> EmptyPage(options.limit, options.offset)]
    ELSE AfterCalls(ConceptCalls(db, concepts, options, failing), concepts, options)

(***************************************************************************)
(* State.  db is the store; request is the call in progress ("none" when   *)
(* no call is), response what it settled with, io the store handles and    *)
(* embeddings the call used, locals the conceptResults and                 *)
(* multiConceptResults of a multi-concept call.                            *)
(***************************************************************************)
VARIABLES db, request, response, io, locals, output,
          source, archive, temps, clock, sync,
          summaries, textCall, promises

\* The state of the archive synchronisation (defined further below).
syncVars == <<source, archive, temps, clock, sync>>

\* The state of the session summaries, of a text search taken statement by
\* statement and of the promises of a multi-concept search (defined further
\* below).
callVars == <<summaries, textCall, promises>>

vars == <<db, request, response, io, locals, output, syncVars, callVars>>

RequestOptions(after, before, limit, mode, offset) ==
    [after |-> after, before |-> before, limit |-> limit, mode |-> mode,
     offset |-> offset]

NoRequest ==
    [concepts |-> <<>>, failing |-> {}, op |-> "none",
     options |-> RequestOptions(NoDate, NoDate, 0, "", 0), query |-> ""]
NoResponse == [kind |-> "none"]
NoIo == [closes |-> 0, embeds |-> 0, opens |-> 0]
NoLocals == [conceptResults |-> <<>>, multiConceptResults |-> <<>>]

\* The files of one project directory below the source directory: two
\* conversations and one file that is not a conversation.
SourceFiles == Paths \cup {"notes.txt"}

\* The sync processes, named by their process id.
Procs == {1, 2}

\* A path with no file behind it.
NoFile == [complete |-> FALSE, exists |-> FALSE, marker |-> FALSE, mtime |-> 0, v |-> 0]

NoFiles == [f \in SourceFiles |-> NoFile]

\* A process that has not called syncConversations yet.
IdleSync ==
    [copied |-> 0, errors |-> 0, filesToIndex |-> <<>>, indexed |-> 0,
     pc |-> "idle", runs |-> 0, skipIndex |-> FALSE, skipped |-> 0,
     todo |-> <<>>, unchanged |-> 0]

\* The session summaries a session can produce: every summary has an id of its
\* own (crypto.randomUUID()), two summaries are made of each session.
MaxSummaries == 6
SummaryIds == 1..MaxSummaries
Summary(id) ==
    [id |-> id, oneLiner |-> IF id % 2 = 1 THEN "First" ELSE "Second",
     sessionId |-> (id + 1) \div 2]
NoSummary == [id |-> 0, oneLiner |-> "", sessionId |-> 0]
SessionIds == {Summary(id).sessionId : id \in SummaryIds}

\* Empty session_summaries and vec_summaries tables, no insertSessionSummary
\* call in progress, no summary inserted for any session.
NoSummaries ==
    [existing |-> 0, inserted |-> [s \in SessionIds |-> NoSummary],
     pc |-> "idle", rows |-> {}, summary |-> NoSummary, thrown |-> FALSE,
     vec |-> {}]

\* No text search in progress.
NoTextCall == [pc |-> "idle", total |-> 0]

\* No multi-concept search in progress.
NoPromises == [pc |-> "idle", rejectedBy |-> 0, state |-> <<>>]

\* An empty store, no call in progress, empty source and archive directories.
Init ==
    /\ db = <<>>
    /\ request = NoRequest
    /\ response = NoResponse
    /\ io = NoIo
    /\ locals = NoLocals
    /\ output = <<>>
    /\ source = NoFiles
    /\ archive = NoFiles
    /\ temps = [t \in SourceFiles \X (Procs \cup {0}) |-> NoFile]
    /\ clock = 0
    /\ sync = [p \in Procs |-> IdleSync]
    /\ summaries = NoSummaries
    /\ textCall = NoTextCall
    /\ promises = NoPromises

\* The exchanges indexed when single-query and multi-concept searches share a
\* store: two conversations of two exchanges each.
Corpus ==
    {[archivePath |-> "A.jsonl", assistantMessage |-> {}, embedding |-> 0,
      timestamp |-> 1, userMessage |-> {"q1"}],
     [archivePath |-> "A.jsonl", assistantMessage |-> {}, embedding |-> 2,
      timestamp |-> 2, userMessage |-> {}],
     [archivePath |-> "B.jsonl", assistantMessage |-> {"q1"}, embedding |-> 0,
      timestamp |-> 2, userMessage |-> {}],
     [archivePath |-> "B.jsonl", assistantMessage |-> {}, embedding |-> 2,
      timestamp |-> 1, userMessage |-> {}]}

\* The exchanges the single-query searches run over: one conversation, the
\* query term in the user message or not at all.
SearchCorpus ==
    {e \in Exchanges :
        /\ e.archivePath = "A.jsonl"
        /\ e.userMessage \in {{}, {"q1"}}
        /\ e.assistantMessage = {}}

\* The exchanges the multi-concept searches run over: two conversations, all
\* of one day, one of them with exchanges near either concept.
ConceptCorpus ==
    {e \in Exchanges :
        /\ e.timestamp = 1
        /\ e.userMessage = {}
        /\ e.assistantMessage = {}
        /\ e.archivePath = "B.jsonl" => e.embedding = 0}

\* insertExchange: a new row of exchanges and of vec_exchanges.
IndexExchange(e) ==
    /\ request.op = "none"
    /\ db' = Append(db, e)
    /\ UNCHANGED <<request, response, io, locals, output, syncVars, callVars>>

\* A call of searchConversations(query, options).
Search(query, options, embedFails) ==
    /\ request.op = "none"
    /\ LET call == searchConversations(db, query, options, embedFails)
       IN /\ request' = [concepts |-> <<>>,
                         failing |-> IF embedFails THEN {query} ELSE {},
                         op |-> "search", options |-> options, query |-> query]
          /\ response' = call.out
          /\ io' = [closes |-> call.closes, embeds |-> call.embeds, opens |-> call.opens]
    /\ UNCHANGED <<db, locals, output, syncVars, callVars>>

\* A call of searchMultipleConcepts(concepts, options).
SearchMultiple(concepts, options, failing) ==
    /\ request.op = "none"
    /\ LET call == searchMultipleConcepts(db, concepts, options, failing)
       IN /\ request' = [concepts |-> concepts, failing |-> failing, op |-> "multi",
                         options |-> options, query |-> ""]
          /\ response' = call.out
          /\ io' = [closes |-> call.closes, embeds |-> call.embeds, opens |-> call.opens]
          /\ locals' = [conceptResults |-> call.conceptResults,
                        multiConceptResults |-> call.multiConceptResults]
    /\ UNCHANGED <<db, output, syncVars, callVars>>

\* The caller has consumed the settled promise.
Return ==
    /\ request.op # "none"
    /\ request' = NoRequest
    /\ response' = NoResponse
    /\ io' = NoIo
    /\ locals' = NoLocals
    /\ output' = <<>>
    /\ UNCHANGED <<db, syncVars, callVars>>

SearchRequest ==
    \E mode \in {"vector", "text", "both"}, limit \in 0..MaxLimit, offset \in 0..MaxOffset,
       dates \in DateFilters :
        Search("q1", RequestOptions(dates[1], dates[2], limit, mode, offset), FALSE)

ConceptLists == UNION {[1..n -> Queries] : n \in 0..MaxConcepts}

\* Multi-concept requests under every date filter, the embeddings available.
FilteredMultiRequest ==
    \E concepts \in ConceptLists, limit \in 0..MaxLimit, offset \in 0..MaxOffset,
       dates \in ConceptDateFilters :
        SearchMultiple(concepts, RequestOptions(dates[1], dates[2], limit, "", offset), {})

\* Multi-concept requests whose embeddings may fail, with and without a
\* malformed date.
MultiRequest ==
    \E concepts \in ConceptLists, limit \in 0..MaxLimit, offset \in 0..MaxOffset,
       after \in {NoDate, Malformed}, failing \in FailingSets :
        SearchMultiple(concepts, RequestOptions(after, NoDate, limit, "", offset), failing)

IndexCorpus == Len(db) < MaxExchanges /\ \E e \in Corpus : IndexExchange(e)
IndexSearchCorpus == Len(db) < MaxExchanges /\ \E e \in SearchCorpus : IndexExchange(e)
IndexConceptCorpus ==
    Len(db) < MaxConceptExchanges /\ \E e \in ConceptCorpus : IndexExchange(e)

\* Single-query and multi-concept searches over one indexed store.
Next == IndexCorpus \/ SearchRequest \/ FilteredMultiRequest \/ Return

Spec == Init /\ [][Next]_vars

\* Single-query searches over a store of one conversation.
NextSearch == IndexSearchCorpus \/ SearchRequest \/ Return

SpecSearch == Init /\ [][NextSearch]_vars

\* Multi-concept searches over a store of two conversations.
NextMulti == IndexConceptCorpus \/ MultiRequest \/ Return

SpecMulti == Init /\ [][NextMulti]_vars

(***************************************************************************)
(* The markdown rendering of a page.  The rendered text is a sequence of   *)
(* lines; a line is a tuple of its literal text and of the values          *)
(* interpolated into it.                                                    *)
(***************************************************************************)
\* Math.round(similarity * 100), the similarity counted in units of 1/One.
Percent(similarity) == (200 * similarity + One) \div (2 * One)

\* The trailing lines appended whatever hasMore says.
MoreLinesAlways(pagination) ==
    << <<"---">>,
       <<"**More results available.** Use offset:", pagination.nextOffset,
         "to see next page.">> >>

\* if (pagination.hasMore) output += `---\n**More results available.** ...`
MoreLines(pagination) ==
    IF pagination.hasMore
    THEN << <<"---">>,
            <<"**More results available.** Use offset:", pagination.nextOffset,
              "to see next page.">> >>
    ELSE <<>>

\* `Showing ${offset + 1}-${offset + results.length} of ${total} results`
ShowingLine(results, pagination) ==
    <<"Showing", pagination.offset + 1, pagination.offset + Len(results),
      "of", pagination.total, "results">>

\* The lines of result number index (counted from 0) of formatResults.
ResultLines(result, pagination, index) ==
    << <<"result", pagination.offset + index + 1, result.timestamp,
         IF result.similarity.def THEN Def(Percent(result.similarity.v)) ELSE Undefined>>,
       <<"Lines in", result.archivePath>> >>

\* The lines of result number index (counted from 0) of
\* formatMultiConceptResults.
MultiResultLines(result, concepts, pagination, index) ==
    << <<"result", pagination.offset + index + 1, Percent(result.averageSimilarity)>>,
       <<"Concepts:", [i \in 1..Len(result.conceptSimilarities) |->
                          <<concepts[i], Percent(result.conceptSimilarities[i])>>]>>,
       <<"Lines in", result.archivePath>> >>

formatResults(results, pagination) ==
    IF Len(results) = 0
    THEN << <<"No results found.">>, <<"Showing 0 of", pagination.total, "results">> >>
    ELSE << <<"## Search Results">>, ShowingLine(results, pagination) >>
         \o Flatten([i \in 1..Len(results) |-> ResultLines(results[i], pagination, i - 1)])
         \o MoreLines(pagination)

formatMultiConceptResults(results, concepts, pagination) ==
    IF Len(results) = 0
    THEN << <<"No conversations found matching all concepts:", concepts>>,
            <<"Showing 0 of", pagination.total, "results">> >>
    ELSE << <<"## Multi-Concept Search Results">>, <<"Concepts:", concepts>>,
            ShowingLine(results, pagination) >>
         \o Flatten([i \in 1..Len(results) |->
                        MultiResultLines(results[i], concepts, pagination, i - 1)])
         \o MoreLines(pagination)

\* The caller renders the page it received as markdown.
Format ==
    /\ response.kind = "page"
    /\ output = <<>>
    /\ output' = IF request.op = "search"
                 THEN formatResults(response.results, response.pagination)
                 ELSE formatMultiConceptResults(response.results, request.concepts,
                                                response.pagination)
    /\ UNCHANGED <<db, request, response, io, locals, syncVars, callVars>>

\* Single-query requests without a date filter.
PlainSearchRequest ==
    \E mode \in {"vector", "text", "both"}, limit \in 0..MaxLimit, offset \in 0..MaxOffset :
        Search("q1", RequestOptions(NoDate, NoDate, limit, mode, offset), FALSE)

\* Multi-concept requests without a date filter, the embeddings available.
PlainMultiRequest ==
    \E concepts \in ConceptLists, limit \in 0..MaxLimit, offset \in 0..MaxOffset :
        SearchMultiple(concepts, RequestOptions(NoDate, NoDate, limit, "", offset), {})

\* Searches of either kind whose pages are rendered.
NextFormat == IndexCorpus \/ PlainSearchRequest \/ PlainMultiRequest \/ Format \/ Return

SpecFormat == Init /\ [][NextFormat]_vars

(***************************************************************************)
(* A client that pages through the results: it asks for the first page     *)
(* with a limit of at least 1 and, while hasMore is true, for the page at  *)
(* the nextOffset it was given; the store does not change meanwhile.       *)
(***************************************************************************)
\* The first page of a single-query search.
FirstPage ==
    \E mode \in {"vector", "text", "both"}, limit \in 1..MaxLimit, dates \in DateFilters :
        Search("q1", RequestOptions(dates[1], dates[2], limit, mode, 0), FALSE)

\* The first page of a multi-concept search.
FirstMultiPage ==
    \E concepts \in ConceptLists, limit \in 1..MaxLimit :
        SearchMultiple(concepts, RequestOptions(NoDate, NoDate, limit, "", 0), {})

\* The options of the request for the next page.
NextPageOptions(options, pagination) ==
    RequestOptions(options.after, options.before, options.limit, options.mode,
                   pagination.nextOffset.v)

\* The call that asks for the next page of the page received.
NextPageCall ==
    IF request.op = "search"
    THEN searchConversations(db, request.query,
                             NextPageOptions(request.options, response.pagination), FALSE)
    ELSE searchMultipleConcepts(db, request.concepts,
                                NextPageOptions(request.options, response.pagination), {})

\* The client asks for the page at nextOffset.
AskNext ==
    /\ response.kind = "page"
    /\ response.pagination.hasMore
    /\ request' = [concepts |-> request.concepts, failing |-> {}, op |-> request.op,
                   options |-> NextPageOptions(request.options, response.pagination),
                   query |-> request.query]

\* The client asks for the page at nextOffset and the call settles.
FollowNext ==
    /\ AskNext
    /\ response' = NextPageCall.out
    /\ io' = [closes |-> NextPageCall.closes, embeds |-> NextPageCall.embeds,
              opens |-> NextPageCall.opens]
    /\ locals' = IF request.op = "multi"
                 THEN [conceptResults |-> NextPageCall.conceptResults,
                       multiConceptResults |-> NextPageCall.multiConceptResults]
                 ELSE locals
    /\ UNCHANGED <<db, output, syncVars, callVars>>

\* The client stops at a page without more, or at an error.
Finish ==
    /\ response.kind = "page" => ~response.pagination.hasMore
    /\ Return

NextPaging == IndexCorpus \/ FirstPage \/ FirstMultiPage \/ FollowNext \/ Finish

\* The client does ask for the next page when there is one.
SpecPaging == Init /\ [][NextPaging]_vars /\ WF_request(AskNext)

(***************************************************************************)
(* syncConversations.  A file is [complete, exists, marker, mtime, v]: v   *)
(* numbers the versions of its content, marker says whether the content    *)
(* holds an exclusion marker, complete whether all of the content has been *)
(* written.  source, archive and temps are the project directory below     *)
(* sourceDir, the one below destDir and the temporary files next to the    *)
(* archived ones; clock is the time of the file system.  Each process is   *)
(* at a position pc of syncConversations: todo are the files still to      *)
(* walk, filesToIndex the copied files still to index, unchanged the       *)
(* number of its runs that started since the source directory last         *)
(* changed (counted up to 2).                                              *)
(***************************************************************************)
MaxTime == 1
MaxVersion == 2
MaxRuns == 2

\* A file whose content has been written in full.
File(marker, mtime, v) ==
    [complete |-> TRUE, exists |-> TRUE, marker |-> marker, mtime |-> mtime, v |-> v]

\* f.endsWith('.jsonl')
EndsWithJsonl(f) == f \in Paths

\* fs.readdirSync(projectPath).filter(f => f.endsWith('.jsonl'))
ReaddirOrder == <<"A.jsonl", "B.jsonl", "notes.txt">>
Files(dir) == SelectSeq(ReaddirOrder, LAMBDA f : dir[f].exists /\ EndsWithJsonl(f))

\* One temporary name for every process.
tempDestShared(dest, pid) == <<dest, 0>>

\* dest + '.tmp.' + process.pid
tempDest(dest, pid) == <<dest, pid>>

\* The destination taken as current only when strictly newer.
IsCurrentStrict(destStat, srcStat) == destStat.mtime > srcStat.mtime

\* destStat.mtimeMs >= srcStat.mtimeMs
IsCurrent(destStat, srcStat) == destStat.mtime >= srcStat.mtime

\* The modification time of a file that fs.copyFileSync has written: the
\* time of the copy, or that of the source where the platform's copy
\* preserves it.
CopiedMtimes(srcStat) == {clock, srcStat.mtime}

\* shouldSkipConversation: a file that cannot be read is not skipped.
shouldSkipConversation(file) == file.exists /\ file.marker

\* parseConversation: the exchange of a conversation file.
parseConversation(file) ==
    [archivePath |-> file, assistantMessage |-> {}, embedding |-> 0,
     timestamp |-> 1, userMessage |-> {}]

\* insertExchange: INSERT OR REPLACE on the id of the exchange.
insertExchange(store, e) ==
    IF \E i \in 1..Len(store) : store[i].archivePath = e.archivePath
    THEN store
    ELSE Append(store, e)

\* The position after the walk: the copied files are indexed unless
\* skipIndex is set or nothing was copied.
AfterWalk(skipIndex, filesToIndex) ==
    IF ~skipIndex /\ filesToIndex # <<>> THEN "index" ELSE "done"

\* The position after one file of the walk.
AfterFile(todo, skipIndex, filesToIndex) ==
    IF Tail(todo) # <<>> THEN "check" ELSE AfterWalk(skipIndex, filesToIndex)

\* The source directory has changed under every process.
Changed == [p \in Procs |-> [sync[p] EXCEPT !.unchanged = 0]]

\* A session writes a conversation file, or a later version of it (with an
\* exclusion marker or not), and sets its modification time.  Only the first
\* conversation gets later versions, markers and other times than 0.
WriteConversation ==
    \E f \in Paths, marker \in BOOLEAN, mtime \in 0..MaxTime :
        /\ source[f].v < MaxVersion
        /\ source[f].marker => marker
        /\ f = "B.jsonl" => source[f].v = 0 /\ ~marker /\ mtime = 0
        /\ source' = [source EXCEPT ![f] = File(marker, mtime, source[f].v + 1)]
        /\ sync' = Changed
        /\ UNCHANGED <<db, request, response, io, locals, output, archive, temps, clock, callVars>>

\* A file that is not a conversation appears in the project directory.
WriteOther ==
    /\ ~source["notes.txt"].exists
    /\ source' = [source EXCEPT !["notes.txt"] = File(FALSE, 0, 1)]
    /\ sync' = Changed
    /\ UNCHANGED <<db, request, response, io, locals, output, archive, temps, clock, callVars>>

\* Time passes.
Tick ==
    /\ clock < MaxTime
    /\ clock' = clock + 1
    /\ UNCHANGED <<db, request, response, io, locals, output, source, archive, temps, sync, callVars>>

\* syncConversations is called: the result is zeroed and the source
\* directory listed.
StartSync(p, skipIndex) ==
    /\ sync[p].pc \in {"idle", "done"}
    /\ sync[p].runs < MaxRuns
    /\ sync' = [sync EXCEPT ![p] =
                   [copied |-> 0, errors |-> 0, filesToIndex |-> <<>>, indexed |-> 0,
                    pc |-> IF Files(source) = <<>> THEN "done" ELSE "check",
                    runs |-> sync[p].runs + 1, skipIndex |-> skipIndex,
                    skipped |-> 0, todo |-> Files(source),
                    unchanged |-> Min(sync[p].unchanged + 1, 2)]]
    /\ UNCHANGED <<db, request, response, io, locals, output, source, archive, temps, clock, callVars>>

\* copyIfNewer up to the copy: the destination is current and the file
\* skipped, or the file is to be copied.
Check(p) ==
    /\ sync[p].pc = "check"
    /\ LET f == Head(sync[p].todo)
       IN IF archive[f].exists /\ IsCurrent(archive[f], source[f])
          THEN sync' = [sync EXCEPT ![p].skipped = @ + 1,
                                    ![p].todo = Tail(@),
                                    ![p].pc = AfterFile(sync[p].todo, sync[p].skipIndex,
                                                        sync[p].filesToIndex)]
          ELSE sync' = [sync EXCEPT ![p].pc = "copy"]
    /\ UNCHANGED <<db, request, response, io, locals, output, source, archive, temps, clock, callVars>>

\* fs.copyFileSync creates the temporary file and starts writing it.
CopyBegin(p) ==
    /\ sync[p].pc = "copy"
    /\ LET f == Head(sync[p].todo)
       IN temps' = [temps EXCEPT ![tempDest(f, p)] =
                       [complete |-> FALSE, exists |-> TRUE, marker |-> source[f].marker,
                        mtime |-> clock, v |-> source[f].v]]
    /\ sync' = [sync EXCEPT ![p].pc = "write"]
    /\ UNCHANGED <<db, request, response, io, locals, output, source, archive, clock, callVars>>

\* fs.copyFileSync has written the whole content.  The file written is the
\* one that was opened, wherever it has been renamed to since.
CopyEnd(p) ==
    /\ sync[p].pc = "write"
    /\ LET f == Head(sync[p].todo)
           t == tempDest(f, p)
       IN \E mtime \in CopiedMtimes(source[f]) :
            IF temps[t].exists
            THEN /\ temps' = [temps EXCEPT ![t] = File(temps[t].marker, mtime, temps[t].v)]
                 /\ UNCHANGED archive
            ELSE /\ archive' = [archive EXCEPT ![f] =
                                   File(archive[f].marker, mtime, archive[f].v)]
                 /\ UNCHANGED temps
    /\ sync' = [sync EXCEPT ![p].pc = "rename"]
    /\ UNCHANGED <<db, request, response, io, locals, output, source, clock, callVars>>

\* fs.renameSync(tempDest, dest), and the counting of the file as copied;
\* a rename that throws is counted in errors.
Rename(p) ==
    /\ sync[p].pc = "rename"
    /\ LET f == Head(sync[p].todo)
           t == tempDest(f, p)
       IN IF temps[t].exists
          THEN /\ archive' = [archive EXCEPT ![f] = temps[t]]
               /\ temps' = [temps EXCEPT ![t] = NoFile]
               /\ sync' = [sync EXCEPT ![p].copied = @ + 1,
                                       ![p].filesToIndex = Append(@, f),
                                       ![p].todo = Tail(@),
                                       ![p].pc = AfterFile(sync[p].todo, sync[p].skipIndex,
                                                           Append(sync[p].filesToIndex, f))]
          ELSE /\ sync' = [sync EXCEPT ![p].errors = @ + 1,
                                       ![p].todo = Tail(@),
                                       ![p].pc = AfterFile(sync[p].todo, sync[p].skipIndex,
                                                           sync[p].filesToIndex)]
               /\ UNCHANGED <<archive, temps>>
    /\ UNCHANGED <<db, request, response, io, locals, output, source, clock, callVars>>

\* One round of the indexing loop: the archived file is skipped when it
\* holds a marker, parsed and its exchange inserted otherwise.
IndexFile(p) ==
    /\ sync[p].pc = "index"
    /\ LET f == Head(sync[p].filesToIndex)
           pc == IF Tail(sync[p].filesToIndex) = <<>> THEN "done" ELSE "index"
       IN IF shouldSkipConversation(archive[f])
          THEN /\ sync' = [sync EXCEPT ![p].filesToIndex = Tail(@), ![p].pc = pc]
               /\ UNCHANGED db
          ELSE /\ db' = insertExchange(db, parseConversation(f))
               /\ sync' = [sync EXCEPT ![p].indexed = @ + 1,
                                       ![p].filesToIndex = Tail(@), ![p].pc = pc]
    /\ UNCHANGED <<request, response, io, locals, output, source, archive, temps, clock, callVars>>

\* A step of the process p, which syncs with either value of skipIndex.
SyncStep(p) ==
    \/ \E skipIndex \in BOOLEAN : StartSync(p, skipIndex)
    \/ Check(p)
    \/ CopyBegin(p)
    \/ CopyEnd(p)
    \/ Rename(p)
    \/ IndexFile(p)

\* One process syncing again and again while sessions write conversations.
NextSync == WriteConversation \/ WriteOther \/ Tick \/ SyncStep(1)

SpecSync == Init /\ [][NextSync]_vars

\* The first run of the process p, with the default options.
FirstSync(p) == sync[p].runs = 0 /\ StartSync(p, FALSE)

\* A step of the process p that runs syncConversations once.
PairStep(p) ==
    \/ FirstSync(p)
    \/ Check(p)
    \/ CopyBegin(p)
    \/ CopyEnd(p)
    \/ Rename(p)
    \/ IndexFile(p)

\* Two processes syncing the same directories once each, while sessions
\* write conversations.
NextSyncPair == WriteConversation \/ \E p \in Procs : PairStep(p)

\* A process that can take a step eventually takes one.
SpecSyncPair ==
    Init /\ [][NextSyncPair]_vars /\ \A p \in Procs : WF_vars(PairStep(p))

(***************************************************************************)
(* A text search taken statement by statement.  The count query and the    *)
(* page query are two statements on one connection, outside any            *)
(* transaction; the store is in WAL mode, and a sync of another process    *)
(* that indexes new conversations commits its rows independently.          *)
(***************************************************************************)
\* searchConversations(query, {mode: 'text'}) up to and including the count
\* query.
TextCount ==
    \E limit \in 1..MaxLimit, offset \in 0..MaxOffset :
        /\ request.op = "none"
        /\ textCall.pc = "idle"
        /\ request' = [concepts |-> <<>>, failing |-> {}, op |-> "search",
                       options |-> RequestOptions(NoDate, NoDate, limit, "text", offset),
                       query |-> "q1"]
        /\ textCall' = [pc |-> "counted", total |-> countStmt(db, "q1", NoDate, NoDate)]
        /\ io' = [closes |-> 0, embeds |-> 0, opens |-> 1]
        /\ UNCHANGED <<db, response, locals, output, syncVars, summaries, promises>>

\* insertExchange of a sync in another process commits, whether a search is
\* in progress or not.
SyncInsert ==
    \E e \in SearchCorpus :
        /\ Len(db) < MaxExchanges
        /\ db' = Append(db, e)
        /\ UNCHANGED <<request, response, io, locals, output, syncVars, callVars>>

\* The page query, db.close() and the return: total is what the count query
\* returned, results what the page query returns now.
TextPage ==
    /\ textCall.pc = "counted"
    /\ response' = Resolved([results |-> textStmt(db, request.query, request.options.after,
                                                  request.options.before,
                                                  request.options.limit,
                                                  request.options.offset),
                             total |-> textCall.total],
                            request.options).out
    /\ io' = [closes |-> 1, embeds |-> 0, opens |-> 1]
    /\ textCall' = NoTextCall
    /\ UNCHANGED <<db, request, locals, output, syncVars, summaries, promises>>

NextText == SyncInsert \/ TextCount \/ TextPage \/ Return

SpecText == Init /\ [][NextText]_vars

(***************************************************************************)
(* searchMultipleConcepts taken promise by promise.  concepts.map calls    *)
(* searchConversations for every concept in turn; each call runs up to its *)
(* first await (or rejects on a malformed date) and returns its promise.   *)
(* The continuations of the calls run only after the caller has suspended  *)
(* in await Promise.all, in any order.  promises.state is the state of     *)
(* each promise, promises.rejectedBy the call that rejected first.         *)
(***************************************************************************)
\* Promise.any in place of Promise.all: fulfilled with the first call that
\* resolves.
AnyFulfilled(state) == \E i \in 1..Len(state) : state[i] = "resolved"

\* Promise.all is fulfilled when every promise is.
AllFulfilled(state) == \A i \in 1..Len(state) : state[i] = "resolved"

\* The per-concept call rejects before its first await.
RejectsAtOnce(options) ==
    \/ ~CheckDate(options.after, "--after").ok
    \/ ~CheckDate(options.before, "--before").ok

\* searchMultipleConcepts(concepts, options) is called with concepts to
\* search for.
CallMultiple ==
    \E concepts \in ConceptLists \ {<<>>}, limit \in 1..MaxLimit,
       after \in {NoDate, Malformed}, failing \in FailingSets :
        /\ request.op = "none"
        /\ promises.pc = "idle"
        /\ request' = [concepts |-> concepts, failing |-> failing, op |-> "multi",
                       options |-> RequestOptions(after, NoDate, limit, "", 0),
                       query |-> ""]
        /\ promises' = [pc |-> "mapping", rejectedBy |-> 0,
                        state |-> [i \in 1..Len(concepts) |-> "unstarted"]]
        /\ UNCHANGED <<db, response, io, locals, output, syncVars, summaries, textCall>>

\* concepts.map reaches concept i: searchConversations runs up to
\* await initEmbeddings(), the store opened, or rejects on the date.
StartCall(i) ==
    /\ promises.pc = "mapping"
    /\ i \in 1..Len(promises.state)
    /\ promises.state[i] = "unstarted"
    /\ \A j \in 1..(i - 1) : promises.state[j] # "unstarted"
    /\ IF RejectsAtOnce(request.options)
       THEN /\ promises' = [promises EXCEPT
                   !.rejectedBy = IF @ = 0 THEN i ELSE @,
                   !.state[i] = "rejected"]
            /\ UNCHANGED io
       ELSE /\ promises' = [promises EXCEPT !.state[i] = "pending"]
            /\ io' = [io EXCEPT !.opens = @ + 1]
    /\ UNCHANGED <<db, request, response, locals, output, syncVars, summaries, textCall>>

\* The caller suspends in await Promise.all(...).
AwaitAll ==
    /\ promises.pc = "mapping"
    /\ \A i \in 1..Len(promises.state) : promises.state[i] # "unstarted"
    /\ promises' = [promises EXCEPT !.pc = "awaiting"]
    /\ UNCHANGED <<db, request, response, io, locals, output, syncVars, summaries, textCall>>

\* The rest of a per-concept call: the embedding, the query, db.close().
SettleCall(i) ==
    /\ promises.pc \in {"awaiting", "thrown"}
    /\ i \in 1..Len(promises.state)
    /\ promises.state[i] = "pending"
    /\ IF request.concepts[i] \in request.failing
       THEN /\ promises' = [promises EXCEPT
                   !.rejectedBy = IF @ = 0 THEN i ELSE @,
                   !.state[i] = "rejected"]
            /\ io' = [io EXCEPT !.embeds = @ + 1]
       ELSE /\ promises' = [promises EXCEPT !.state[i] = "resolved"]
            /\ io' = [io EXCEPT !.closes = @ + 1, !.embeds = @ + 1]
    /\ UNCHANGED <<db, request, response, locals, output, syncVars, summaries, textCall>>

\* Promise.all is fulfilled: conversationMap is built, the conversations of
\* all concepts are kept, sorted and paginated, and the call returns.
Join ==
    /\ promises.pc = "awaiting"
    /\ AllFulfilled(promises.state)
    /\ LET call == searchMultipleConcepts(db, request.concepts, request.options,
                                          request.failing)
       IN /\ response' = call.out
          /\ locals' = [conceptResults |-> call.conceptResults,
                        multiConceptResults |-> call.multiConceptResults]
    /\ promises' = [promises EXCEPT !.pc = "intersected"]
    /\ UNCHANGED <<db, request, io, output, syncVars, summaries, textCall>>

\* Promise.all is rejected with the first rejection; the call throws it.
Reject ==
    /\ promises.pc = "awaiting"
    /\ promises.rejectedBy # 0
    /\ response' = ConceptCalls(db, request.concepts, request.options,
                                request.failing)[promises.rejectedBy].out
    /\ promises' = [promises EXCEPT !.pc = "thrown"]
    /\ UNCHANGED <<db, request, io, locals, output, syncVars, summaries, textCall>>

\* The caller has consumed the settled promise and no call is left pending.
ReturnMultiple ==
    /\ promises.pc \in {"intersected", "thrown"}
    /\ \A i \in 1..Len(promises.state) : promises.state[i] # "pending"
    /\ request' = NoRequest
    /\ response' = NoResponse
    /\ io' = NoIo
    /\ locals' = NoLocals
    /\ promises' = NoPromises
    /\ UNCHANGED <<db, output, syncVars, summaries, textCall>>

NextPromises ==
    \/ IndexConceptCorpus
    \/ CallMultiple
    \/ \E i \in 1..MaxConcepts : StartCall(i) \/ SettleCall(i)
    \/ AwaitAll
    \/ Join
    \/ Reject
    \/ ReturnMultiple

SpecPromises == Init /\ [][NextPromises]_vars

(***************************************************************************)
(* Session summaries (insertSessionSummary): the session_summaries table   *)
(* with its primary key id and its UNIQUE(session_id), and the vec_summaries *)
(* table with its primary key id.  Every statement commits on its own.     *)
(***************************************************************************)
\* SELECT id FROM session_summaries WHERE session_id = ?  (0: no row).
Existing(rows, sessionId) ==
    IF \E r \in rows : r.sessionId = sessionId
    THEN (CHOOSE r \in rows : r.sessionId = sessionId).id
    ELSE 0

\* The vector entry of the row that is about to be replaced is left behind.
KeepOldVector(vec, existing) == vec

\* if (existing) DELETE FROM vec_summaries WHERE id = ?
DeleteOldVector(vec, existing) ==
    IF existing # 0 THEN vec \ {existing} ELSE vec

\* INSERT OR REPLACE INTO session_summaries: the rows that conflict with the
\* new one on the primary key or on UNIQUE(session_id) are deleted first.
InsertOrReplaceRow(rows, summary) ==
    {r \in rows : r.id # summary.id /\ r.sessionId # summary.sessionId}
        \cup {summary}

\* INSERT INTO vec_summaries: an id that is already there is a constraint
\* violation, which throws and leaves the table as it was.
VecInsertThrows(vec, id) == id \in vec
InsertVector(vec, id) == IF VecInsertThrows(vec, id) THEN vec ELSE vec \cup {id}

\* insertSessionSummary is called and runs its SELECT.
SelectExisting ==
    \E id \in SummaryIds :
        /\ summaries.pc = "idle"
        /\ summaries' = [summaries EXCEPT
               !.existing = Existing(summaries.rows, Summary(id).sessionId),
               !.pc = "selected", !.summary = Summary(id), !.thrown = FALSE]
        /\ UNCHANGED <<db, request, response, io, locals, output, syncVars,
                       textCall, promises>>

DeleteVector ==
    /\ summaries.pc = "selected"
    /\ summaries' = [summaries EXCEPT
           !.pc = "deleted",
           !.vec = DeleteOldVector(summaries.vec, summaries.existing)]
    /\ UNCHANGED <<db, request, response, io, locals, output, syncVars,
                   textCall, promises>>

InsertOrReplace ==
    /\ summaries.pc = "deleted"
    /\ summaries' = [summaries EXCEPT
           !.pc = "replaced",
           !.rows = InsertOrReplaceRow(summaries.rows, summaries.summary)]
    /\ UNCHANGED <<db, request, response, io, locals, output, syncVars,
                   textCall, promises>>

\* The last statement; the call returns or throws.
VecInsert ==
    /\ summaries.pc = "replaced"
    /\ summaries' = [summaries EXCEPT
           !.inserted[summaries.summary.sessionId] = summaries.summary,
           !.pc = "idle",
           !.thrown = VecInsertThrows(summaries.vec, summaries.summary.id),
           !.vec = InsertVector(summaries.vec, summaries.summary.id)]
    /\ UNCHANGED <<db, request, response, io, locals, output, syncVars,
                   textCall, promises>>

insertSessionSummary == SelectExisting \/ DeleteVector \/ InsertOrReplace \/ VecInsert

NextSummaries == insertSessionSummary

SpecSummaries == Init /\ [][NextSummaries]_vars

(***************************************************************************)
(* Properties.                                                             *)
(***************************************************************************)
IsPage == request.op # "none" /\ response.kind = "page"
IsSearchPage == request.op = "search" /\ response.kind = "page"
IsMultiPage == request.op = "multi" /\ response.kind = "page"

\* C1: in every response of searchConversations (each mode) and of
\* searchMultipleConcepts, hasMore is true exactly when
\* offset + results.length < total, and nextOffset is defined exactly when
\* hasMore is true and then equals offset + limit.
C1_HasMoreAndNextOffset ==
    IsPage =>
        LET p == response.pagination
            offset == request.options.offset
            limit == request.options.limit
        IN /\ p.hasMore <=> (offset + Len(response.results) < p.total)
           /\ p.nextOffset.def <=> p.hasMore
           /\ p.hasMore => p.nextOffset.v = offset + limit

\* A multi-concept page and a single-query page that report more results.
C1_Witness ==
    /\ IsPage
    /\ response.pagination.hasMore
    /\ response.pagination.nextOffset = Def(request.options.offset + request.options.limit)
    /\ request.options.offset > 0
    /\ Len(response.results) > 0

\* The exchanges of the store the time clause of the request lets through.
InDateRange ==
    {i \in 1..Len(db) :
        timeClause(db[i].timestamp, request.options.after, request.options.before)}

\* C2: in vector mode, when the store holds more exchanges within the date
\* filter than offset + limit, the response has hasMore = true and
\* nextOffset = offset + limit.
C2_VectorHasMoreWhenMoreExist ==
    (/\ IsSearchPage
     /\ request.options.mode = "vector"
     /\ request.options.limit >= 1
     /\ Cardinality(InDateRange) > request.options.offset + request.options.limit)
        => /\ response.pagination.hasMore
           /\ response.pagination.nextOffset
                  = Def(request.options.offset + request.options.limit)

PathsOf(results) == {results[i].archivePath : i \in 1..Len(results)}
IdsOf(results) == {results[i].id : i \in 1..Len(results)}

\* C3: for a fixed store and concept list, the multi-concept pages at offset 0
\* and at offset = limit (same limit) have no conversation in common.
C3_MultiPagesDisjoint ==
    (/\ IsMultiPage
     /\ request.options.offset = 0
     /\ request.options.limit >= 1)
        => LET o == request.options
               second == searchMultipleConcepts(db, request.concepts,
                             RequestOptions(o.after, o.before, o.limit, o.mode, o.limit),
                             request.failing).out
           IN PathsOf(response.results) \cap PathsOf(ResultsOf(second)) = {}

\* The page searchConversations returns for the request at another offset.
PageAtOffset(other) ==
    LET o == request.options
    IN ResultsOf(searchConversations(db, request.query,
                     RequestOptions(o.after, o.before, o.limit, o.mode, other),
                     FALSE).out)

\* C4: for a fixed store, query, mode and date filter, two single-query pages
\* of the same limit at offsets that differ by at least limit share no
\* exchange id, in each of the modes vector, text and both.
C4_SinglePagesDisjoint ==
    (IsSearchPage /\ request.options.limit >= 1)
        => \A other \in 0..(MaxOffset + MaxLimit) :
               Abs(other - request.options.offset) >= request.options.limit
                   => IdsOf(response.results) \cap IdsOf(PageAtOffset(other)) = {}

\* The exchanges whose user or assistant message contains the query and that
\* pass the date filter.
TextMatchIds ==
    {i \in InDateRange :
        request.query \in db[i].userMessage \/ request.query \in db[i].assistantMessage}

\* C5: in text mode, total is the exact number of stored exchanges whose user
\* or assistant message contains the query and that pass the date filter,
\* whatever limit and offset are, and the results are the matches at positions
\* offset .. offset+limit-1 of the matches ordered by timestamp descending.
C5_TextTotalAndPage ==
    (IsSearchPage /\ request.options.mode = "text")
        => LET matches == TextMatchIds
               count == Cardinality(matches)
               res == response.results
               offset == request.options.offset
               limit == request.options.limit
               ts(j) == db[res[j].id].timestamp
           IN /\ response.pagination.total = count
              /\ Len(res) = IF count > offset THEN Min(limit, count - offset) ELSE 0
              /\ \A j \in 1..Len(res) : res[j].id \in matches
              /\ \A j, l \in 1..Len(res) :
                     j < l => res[j].id # res[l].id /\ ts(j) >= ts(l)
              /\ \A j \in 1..Len(res) :
                     /\ Cardinality({x \in matches : db[x].timestamp > ts(j)}) < offset + j
                     /\ offset + j <= Cardinality({x \in matches : db[x].timestamp >= ts(j)})

\* A text page under a date filter that starts past the first match, with a
\* match left out by the date filter and more matches after the page.
C5_Witness ==
    /\ IsSearchPage
    /\ request.options.mode = "text"
    /\ request.options.after.given \/ request.options.before.given
    /\ request.options.offset >= 1
    /\ Len(response.results) >= 1
    /\ \E i \in 1..Len(db) : i \notin InDateRange /\ request.query \in db[i].userMessage
    /\ Cardinality(TextMatchIds) >= 2

\* C6: every response of searchConversations and of searchMultipleConcepts
\* has results.length <= limit and results.length <= total.
C6_PageWithinLimitAndTotal ==
    IsPage =>
        /\ Len(response.results) <= request.options.limit
        /\ Len(response.results) <= response.pagination.total

\* A full page of a multi-concept search with more results after it.
C6_Witness ==
    /\ IsMultiPage
    /\ Len(response.results) = request.options.limit
    /\ request.options.limit >= 1
    /\ response.pagination.total > Len(response.results)

\* C7: a request whose offset is at or beyond the total returns no results and
\* hasMore = false, and pagination.offset is the requested offset.
C7_OffsetBeyondTotal ==
    (IsPage /\ request.options.offset >= response.pagination.total)
        => /\ response.results = <<>>
           /\ ~response.pagination.hasMore
           /\ ~response.pagination.nextOffset.def
           /\ response.pagination.offset = request.options.offset

\* A request at an offset equal to a total of at least one.
C7_Witness ==
    /\ IsPage
    /\ response.pagination.total >= 1
    /\ request.options.offset = response.pagination.total
    /\ response.results = <<>>

\* A date argument that is given and is no YYYY-MM-DD calendar date.
InvalidDate(ds) == ds.given /\ ~RealCalendarDate(ds)

\* C8: searchConversations and searchMultipleConcepts, given an after or
\* before that is no YYYY-MM-DD calendar date, fail with an error naming that
\* parameter and value, before any embedding is generated and before the store
\* is opened, for every query and every concept list.
C8_InvalidDateFailsFirst ==
    (/\ request.op # "none"
     /\ InvalidDate(request.options.after) \/ InvalidDate(request.options.before))
        => /\ response.kind = "error"
           /\ response.name = "ValidationError"
           /\ \/ /\ InvalidDate(request.options.after)
                 /\ response.param = "--after"
                 /\ response.value = request.options.after
              \/ /\ InvalidDate(request.options.before)
                 /\ response.param = "--before"
                 /\ response.value = request.options.before
           /\ io.embeds = 0
           /\ io.opens = 0

\* The conversations among the results one concept's search returned.
StreamPaths(i) == PathsOf(ResultsOf(locals.conceptResults[i]))
StreamIds(i) == IdsOf(ResultsOf(locals.conceptResults[i]))

\* C9: a conversation (archivePath) is among the multi-concept matches exactly
\* when every concept's results hold at least one of its exchanges; the
\* exchanges may differ from concept to concept.
C9_MatchIffInEveryStream ==
    (IsMultiPage /\ Len(request.concepts) >= 1)
        => LET found == locals.multiConceptResults
           IN /\ PathsOf(found) =
                     {p \in Paths : \A i \in 1..Len(request.concepts) : p \in StreamPaths(i)}
              /\ \A j, l \in 1..Len(found) :
                     j # l => found[j].archivePath # found[l].archivePath

\* A match none of whose exchanges is among the results of every concept,
\* next to a conversation left out although one concept returned it.
C9_Witness ==
    /\ IsMultiPage
    /\ Len(request.concepts) >= 2
    /\ request.options.limit >= 1
    /\ \E p \in PathsOf(locals.multiConceptResults) :
           ~\E x \in 1..Len(db) :
               /\ db[x].archivePath = p
               /\ \A i \in 1..Len(request.concepts) : x \in StreamIds(i)
    /\ \E p \in Paths :
           /\ p \notin PathsOf(locals.multiConceptResults)
           /\ \E i \in 1..Len(request.concepts) : p \in StreamPaths(i)

\* C10: if the retrieval of one concept fails, the whole call fails with that
\* error; it returns no results, and no intersection over the concepts that
\* succeeded.
C10_OneFailureFailsAll ==
    (/\ request.op = "multi"
     /\ \E i \in 1..Len(request.concepts) : request.concepts[i] \in request.failing)
        => /\ response.kind = "error"
           /\ \E i \in 1..Len(request.concepts) : response = locals.conceptResults[i]
           /\ ~request.options.after.given => response.name = "EmbeddingError"
           /\ locals.multiConceptResults = <<>>

\* A call of two concepts of which one fails while the other returned results.
C10_Witness ==
    /\ request.op = "multi"
    /\ Len(request.concepts) = 2
    /\ request.concepts[1] \notin request.failing
    /\ request.concepts[2] \in request.failing
    /\ ResultsOf(locals.conceptResults[1]) # <<>>
    /\ response.kind = "error"

\* C11: every result of searchMultipleConcepts has one similarity per concept,
\* and its averageSimilarity is the arithmetic mean of them.
C11_OneScorePerConceptAndMean ==
    IsMultiPage =>
        \A j \in 1..Len(response.results) :
            LET r == response.results[j]
            IN /\ Len(r.conceptSimilarities) = Len(request.concepts)
               /\ r.averageSimilarity * Len(r.conceptSimilarities)
                      = Sum(r.conceptSimilarities)

\* A returned result whose two concepts have different similarities.
C11_Witness ==
    /\ IsMultiPage
    /\ Len(request.concepts) = 2
    /\ \E j \in 1..Len(response.results) :
           response.results[j].conceptSimilarities[1]
               # response.results[j].conceptSimilarities[2]

\* C12: mode both never returns two results with the same exchange id.
C12_BothModeNoDuplicateIds ==
    (IsSearchPage /\ request.options.mode = "both")
        => \A j, l \in 1..Len(response.results) :
               j # l => response.results[j].id # response.results[l].id

\* The ids the vector query of the request returned.
RequestVectorIds ==
    IdsOf(vectorStmt(db, generateEmbedding(request.query),
                     request.options.limit + request.options.offset,
                     request.options.after, request.options.before))

\* A page of mode both with two results, one of them found by the vector
\* query and by the text query.
C12_Witness ==
    /\ IsSearchPage
    /\ request.options.mode = "both"
    /\ Len(response.results) >= 2
    /\ \E j \in 1..Len(response.results) :
           /\ response.results[j].id \in RequestVectorIds
           /\ response.results[j].id \in TextMatchIds

\* C13: a text-mode result has no similarity, and a vector-mode or both-mode
\* result that has a similarity has 1 - the distance of its exchange to the
\* query embedding.
C13_SimilarityIsOneMinusDistance ==
    IsSearchPage =>
        \A j \in 1..Len(response.results) :
            LET r == response.results[j]
            IN IF request.options.mode = "text"
               THEN ~r.similarity.def
               ELSE r.similarity.def =>
                        r.similarity.v
                            = One - Distance(db[r.id], generateEmbedding(request.query))

\* C14: the results of searchMultipleConcepts are ordered by averageSimilarity
\* non-increasing.
C14_OrderedByAverage ==
    IsMultiPage =>
        \A j \in 1..(Len(response.results) - 1) :
            response.results[j].averageSimilarity
                >= response.results[j + 1].averageSimilarity

\* A page of two results of different averages whose first result is not the
\* conversation met first in the results of the first concept.
C14_Witness ==
    /\ IsMultiPage
    /\ Len(response.results) >= 2
    /\ response.results[1].averageSimilarity > response.results[2].averageSimilarity
    /\ ResultsOf(locals.conceptResults[1]) # <<>>
    /\ ResultsOf(locals.conceptResults[1])[1].archivePath
           # response.results[1].archivePath

\* C15: searchMultipleConcepts with an empty concept list returns no results,
\* total 0, hasMore false and no nextOffset, without generating an embedding
\* and without opening the store.
C15_EmptyConceptList ==
    (request.op = "multi" /\ request.concepts = <<>>)
        => /\ response.kind = "page"
           /\ response.results = <<>>
           /\ response.pagination.total = 0
           /\ ~response.pagination.hasMore
           /\ ~response.pagination.nextOffset.def
           /\ io.embeds = 0
           /\ io.opens = 0

\* The call with an empty concept list on a store that holds exchanges.
C15_Witness ==
    /\ request.op = "multi"
    /\ request.concepts = <<>>
    /\ request.options.limit >= 1
    /\ db # <<>>
    /\ response.kind = "page"


\* The lines of the rendered page that start with the given text.
LinesOf(text) == {i \in 1..Len(output) : output[i][1] = text}

MoreText == "**More results available.** Use offset:"

IsRendered == response.kind = "page" /\ output # <<>>

\* C16 as stated: the rendered page has the trailing 'More results
\* available ... offset: <nextOffset>' line exactly when pagination.hasMore is
\* true, and a page with zero results has the line 'Showing 0 of <total>
\* results'.
C16_MoreLineIffHasMore ==
    IsRendered =>
        /\ (LinesOf(MoreText) # {}) <=> response.pagination.hasMore
        /\ Len(response.results) = 0 =>
               \E i \in LinesOf("Showing 0 of") : output[i][2] = response.pagination.total

\* C16, amended: the rendered page has the trailing 'More results available'
\* line, naming nextOffset, exactly when pagination.hasMore is true and the
\* page has at least one result; a page with zero results has the line
\* 'Showing 0 of <total> results' and no trailing line.
C16_MoreLineIffHasMoreAndResults ==
    IsRendered =>
        /\ (LinesOf(MoreText) # {})
              <=> (response.pagination.hasMore /\ Len(response.results) > 0)
        /\ \A i \in LinesOf(MoreText) :
              /\ i = Len(output)
              /\ output[i][2] = response.pagination.nextOffset
        /\ Len(response.results) = 0 =>
               \E i \in LinesOf("Showing 0 of") : output[i][2] = response.pagination.total

\* A page of a multi-concept search with results and with more to come,
\* rendered with the trailing line.
C16_Witness ==
    /\ IsRendered
    /\ request.op = "multi"
    /\ response.pagination.hasMore
    /\ Len(response.results) > 0
    /\ LinesOf(MoreText) # {}

\* No process is inside a run of syncConversations.
NoSyncRunning == \A p \in Procs : sync[p].pc \in {"idle", "done"}

\* The store holds an exchange of the conversation archived at f.
Indexed(f) == \E i \in 1..Len(db) : db[i].archivePath = f

\* C17: after a run that reports no errors, a second run over an unchanged
\* source directory copies 0 files, counts every source .jsonl file as skipped
\* and indexes nothing, whatever the modification times of the source files.
C17_SecondRunCopiesNothing ==
    \A p \in Procs :
        (sync[p].pc = "done" /\ sync[p].unchanged = 2 /\ sync[p].errors = 0) =>
            /\ sync[p].copied = 0
            /\ sync[p].skipped = Len(Files(source))
            /\ sync[p].indexed = 0

\* C18: under every interleaving of two sync processes on the same source and
\* archive directories, each destination .jsonl path at every moment either
\* does not exist or holds the complete content of some version of its source
\* file, no copy fails, and both runs complete.
C18_NeverPartialAndBothComplete ==
    /\ [](\A f \in Paths :
            archive[f].exists =>
                /\ archive[f].complete
                /\ archive[f].v \in 1..source[f].v)
    /\ [](\A p \in Procs : sync[p].errors = 0)
    /\ \A p \in Procs : (sync[p].pc = "check") ~> (sync[p].pc = "done")

\* The two processes are copying the same conversation at once: one has
\* written half of its temporary file, the other is about to rename its own.
C18_Witness ==
    /\ sync[1].pc = "write"
    /\ sync[2].pc = "rename"
    /\ Head(sync[1].todo) = Head(sync[2].todo)
    /\ temps[tempDest(Head(sync[1].todo), 1)].exists
    /\ ~temps[tempDest(Head(sync[1].todo), 1)].complete
    /\ temps[tempDest(Head(sync[2].todo), 2)].complete

\* C19: after any sequence of sync runs, a conversation whose archived file
\* contains the exclusion marker has no exchange in the search index, also
\* when the marker was added after an earlier sync.
C19_MarkedConversationNotIndexed ==
    NoSyncRunning =>
        \A f \in Paths : (archive[f].exists /\ archive[f].marker) => ~Indexed(f)

\* The process p takes the step that ends the given position of the walk.
Leaves(p, pc) ==
    /\ sync[p].pc = pc
    /\ sync'[p].pc # pc \/ sync'[p].todo # sync[p].todo

\* The destination of f does not exist or is strictly older than its source.
Stale(f) == ~archive[f].exists \/ archive[f].mtime < source[f].mtime

C21_ConceptKIsOverFetchPlusOffset ==
    (request.op = "multi" /\ Len(request.concepts) >= 1) =>
        ConceptK(request.options)
            = request.options.limit * OverFetch + request.options.offset

\* The rows the store returns to the retrieval of concept i.
Fetched(i) ==
    vectorStmt(db, generateEmbedding(request.concepts[i]), ConceptK(request.options),
               request.options.after, request.options.before)

\* The candidate stream of concept i that enters the intersection.
StreamOf(i) == ResultsOf(locals.conceptResults[i])

\* C22: the candidate stream of each concept that enters the intersection
\* starts at the concept's nearest neighbour: it is the sequence of the rows
\* the store returned, none of the top-ranked ones discarded, for every offset.
C22_StreamStartsAtNearest ==
    (IsMultiPage /\ Len(request.concepts) >= 1 /\ request.options.limit >= 1) =>
        \A i \in 1..Len(request.concepts) :
            [j \in 1..Len(StreamOf(i)) |-> StreamOf(i)[j].id]
                = [j \in 1..Len(Fetched(i)) |-> Fetched(i)[j].id]

\* C23: every store handle opened by a search call is closed by the time the
\* call returns or fails, on every exit path.
C23_EveryHandleClosed ==
    request.op # "none" => io.closes = io.opens

\* C25: in mode both, when the vector retrieval returns its full
\* limit + offset rows every result of the page is one of them; an exchange
\* that matches only the text query is on a page only when the vector
\* retrieval returned fewer than limit + offset rows.
C25_TextOnlyAfterVectorCandidates ==
    (IsSearchPage /\ request.options.mode = "both") =>
        /\ Cardinality(RequestVectorIds) = request.options.limit + request.options.offset
              => IdsOf(response.results) \subseteq RequestVectorIds
        /\ IdsOf(response.results) \ RequestVectorIds # {}
              => Cardinality(RequestVectorIds)
                     < request.options.limit + request.options.offset

\* A page of mode both with results, the vector retrieval having returned
\* its full limit + offset rows and the store holding a text match that is
\* not among them.
C25_Witness ==
    /\ IsSearchPage
    /\ request.options.mode = "both"
    /\ request.options.limit >= 1
    /\ Cardinality(RequestVectorIds) = request.options.limit + request.options.offset
    /\ TextMatchIds \ RequestVectorIds # {}
    /\ response.results # <<>>

\* C26: in vector mode, pagination.total is the number of rows fetched for the
\* request and never exceeds limit + offset.
C26_VectorTotalAtMostK ==
    (IsSearchPage /\ request.options.mode = "vector") =>
        /\ response.pagination.total
              = Len(vectorStmt(db, generateEmbedding(request.query),
                               VectorK(request.options.limit, request.options.offset),
                               request.options.after, request.options.before))
        /\ response.pagination.total <= request.options.limit + request.options.offset

\* A vector page over a store with more exchanges in the date range than the
\* request fetched.
C26_Witness ==
    /\ IsSearchPage
    /\ request.options.mode = "vector"
    /\ request.options.limit >= 1
    /\ response.pagination.total = request.options.limit + request.options.offset
    /\ Cardinality(InDateRange) > response.pagination.total

\* The results of concept i's candidate stream that belong to a conversation.
InConversation(i, archivePath) ==
    SelectSeq(StreamOf(i), LAMBDA r : r.archivePath = archivePath)

\* C29: for every conversation that matches all concepts and every concept i,
\* conceptSimilarities[i] is the similarity of the first of the conversation's
\* exchanges in concept i's candidate stream, which is the highest among them.
C29_ConceptSimilarityIsBest ==
    (IsMultiPage /\ Len(request.concepts) >= 1) =>
        \A n \in 1..Len(locals.multiConceptResults), i \in 1..Len(request.concepts) :
            LET found == locals.multiConceptResults[n]
                own == InConversation(i, found.archivePath)
            IN /\ own # <<>>
               /\ found.conceptSimilarities[i] = own[1].similarity.v
               /\ \A j \in 1..Len(own) :
                      own[j].similarity.v <= found.conceptSimilarities[i]

\* A returned conversation with two exchanges of different similarity in the
\* candidate stream of one concept.
C29_Witness ==
    /\ IsMultiPage
    /\ \E n \in 1..Len(response.results), i \in 1..Len(request.concepts) :
        LET own == InConversation(i, response.results[n].archivePath)
        IN /\ Len(own) >= 2
           /\ own[1].similarity.v > own[Len(own)].similarity.v
           /\ response.results[n].conceptSimilarities[i] = own[1].similarity.v

\* C27: for a fixed store and a limit of at least 1, a client that starts at
\* offset 0 and keeps requesting the returned nextOffset while hasMore is true
\* reaches a response with hasMore = false, in the modes vector, text and
\* both and in multi-concept search.
C27_PagingTerminates ==
    (response.kind = "page")
        ~> (response.kind = "page" /\ ~response.pagination.hasMore)

\* The client has followed nextOffset to a last page of mode both.
C27_Witness ==
    /\ IsSearchPage
    /\ request.options.mode = "both"
    /\ request.options.offset >= 1
    /\ ~response.pagination.hasMore
    /\ response.results # <<>>

\* C28: after any sequence of insertSessionSummary calls, session_summaries
\* holds exactly one row per session inserted, that row is the summary
\* inserted last for the session, and vec_summaries holds exactly the ids of
\* the rows of session_summaries.
SummarisedSessions == {s \in SessionIds : summaries.inserted[s] # NoSummary}
C28_OneCurrentRowPerSession ==
    summaries.pc = "idle" =>
        /\ summaries.rows = {summaries.inserted[s] : s \in SummarisedSessions}
        /\ Cardinality(summaries.rows) = Cardinality(SummarisedSessions)
        /\ summaries.vec = {r.id : r \in summaries.rows}
        /\ ~summaries.thrown

\* A second summary of a session has been inserted after a first one, next to
\* the summary of another session.
C28_Witness ==
    /\ summaries.pc = "idle"
    /\ summaries.inserted[1] = Summary(2)
    /\ summaries.existing = 1
    /\ summaries.inserted[2] # NoSummary

\* C30: a text-mode search during which another process inserts matching
\* exchanges still returns a consistent page: total >= offset + the number of
\* results, also when an insert commits between the count query and the page
\* query.
C30_TextPageWithinTotal ==
    (IsSearchPage /\ request.options.mode = "text" /\ response.results # <<>>) =>
        response.pagination.total >= request.options.offset + Len(response.results)

\* C24: in searchMultipleConcepts every per-concept retrieval is started
\* before any of them is awaited, and the intersection step runs only after
\* every retrieval has completed successfully, never while one is pending.
PromiseStates == {promises.state[i] : i \in 1..Len(promises.state)}
C24_AllStartedThenAllJoined ==
    /\ (promises.pc # "mapping" \/ "resolved" \in PromiseStates)
           => "unstarted" \notin PromiseStates
    /\ promises.pc = "intersected" => PromiseStates = {"resolved"}

\* The intersection has run for two concepts, both retrievals resolved.
C24_Witness ==
    /\ promises.pc = "intersected"
    /\ Len(promises.state) = 2
    /\ IsMultiPage
    /\ locals.multiConceptResults # <<>>

====
